---- MODULE Spec2Model ----
(***************************************************************************)
(* The daily briefing pipeline of hbg/buffett: holdings, the suggestion    *)
(* ledger (OPEN -> HIT | EXPIRED), briefings and snapshots, as kept in the *)
(* SQLite store of db.py and driven by pipeline.run_daily.                 *)
(*                                                                         *)
(* Money is counted in whole units (a price of 3 is 3 units), time in      *)
(* whole days since the first observation.  An Optional[...] field is a    *)
(* sequence: <<>> for None, <<v>> for the value v.                         *)
(***************************************************************************)
EXTENDS Integers, Sequences, FiniteSets, TLC

\* ---------------------------------------------------------------- bounds
MaxTime == 2          \* the clock stops here
MaxSuggestions == 2   \* rows of the suggestions table
MaxBriefings == 1     \* rows of the briefings table
MaxShares == 1        \* shares of one holding

\* ---------------------------------------------------------------- inputs
Tickers == {"AAA", "BBB"}     \* the tickers a candidate may name
Holdable == {"AAA"}           \* the tickers the user adds; BBB is a new idea
Prices == {1, 2, 3}           \* current_price of a quote
Actions == {"BUY", "SELL"}
TargetPrices == {2}
Timeframes == {1}             \* timeframe_days
LotShares == {1}              \* add <ticker> <shares> <cost_basis>
LotBasis == {1}
ShareScale == 10              \* where shares are fractional: tenths of a share

None == <<>>
Some(v) == <<v>>

\* ---------------------------------------------------------------- state
VARIABLES
    now,          \* the wall clock read by datetime.now()
    holdings,     \* table holdings: ticker -> [shares, cost_basis]
    suggestions,  \* table suggestions: row id (1..) -> row
    briefings,    \* table briefings: row id (1..) -> row
    snapshots,    \* table holding_snapshots: a set of rows
    pc,           \* where run_daily stands
    local,        \* run_daily's local variables
    start,        \* the tables as they were when the current run began
    outcome       \* how the current run ended, once it has

vars == <<now, holdings, suggestions, briefings, snapshots, pc, local, start,
          outcome>>

\* ------------------------------------------------------------- rationals
RECURSIVE Gcd(_, _)
Gcd(a, b) == IF b = 0 THEN a ELSE Gcd(b, a % b)

\* the real number n / d (d # 0) in lowest terms, the denominator positive
Frac(n, d) ==
    LET sn == IF d < 0 THEN -n ELSE n
        sd == IF d < 0 THEN -d ELSE d
        g == Gcd(sn, sd)
    IN  [n |-> sn \div g, d |-> sd \div g]

\* ---------------------------------------------------------------- db.py
\* str.upper() on the ticker symbols that occur
upper(ticker) ==
    CASE ticker = "aaa" -> "AAA"
      [] ticker = "bbb" -> "BBB"
      [] OTHER -> ticker

\* INSERT ... ON CONFLICT(ticker) DO UPDATE, the key being ticker.upper():
\* the quantity-weighted average cost basis, and the shares summed.  When the
\* shares sum to zero the division gives NULL, cost_basis is NOT NULL, the
\* statement fails (sqlite3.IntegrityError) and the table is as it was.
add_holding(h, ticker, shares, cost_basis) ==
    LET key == upper(ticker) IN
    IF key \in DOMAIN h
    THEN LET old == h[key]
             num == old.cost_basis.n * old.shares * cost_basis.d
                    + cost_basis.n * shares * old.cost_basis.d
             den == old.cost_basis.d * cost_basis.d * (old.shares + shares)
         IN  IF old.shares + shares = 0 THEN h
             ELSE [h EXCEPT ![key] =
                     [shares |-> old.shares + shares,
                      cost_basis |-> Frac(num, den)]]
    ELSE [t \in DOMAIN h \cup {key} |->
             IF t = key
             THEN [shares |-> shares, cost_basis |-> cost_basis]
             ELSE h[t]]

\* DELETE FROM holdings WHERE ticker = ticker.upper()
remove_holding(h, ticker) == [t \in DOMAIN h \ {upper(ticker)} |-> h[t]]

get_holdings == holdings

\* a faulty resolve_suggestion: the UPDATE without its WHERE id = ?
resolve_suggestion_all(ledger, suggestion_id, status, resolved_price, at) ==
    [i \in DOMAIN ledger |->
        [ledger[i] EXCEPT !.status = status,
                          !.resolved_price = Some(resolved_price),
                          !.resolved_at = Some(at)]]

\* a faulty resolve_suggestion: the status written alone
resolve_suggestion_status_only(ledger, suggestion_id, status, resolved_price, at) ==
    [ledger EXCEPT ![suggestion_id] = [@ EXCEPT !.status = status]]

\* UPDATE suggestions SET status, resolved_price, resolved_at WHERE id = ?
\* with resolved_at the clock at the time of the call: one statement, one commit.
resolve_suggestion(ledger, suggestion_id, status, resolved_price, at) ==
    [ledger EXCEPT ![suggestion_id] =
        [@ EXCEPT !.status = status,
                  !.resolved_price = Some(resolved_price),
                  !.resolved_at = Some(at)]]

expire_suggestion(ledger, suggestion_id, current_price, at) ==
    resolve_suggestion(ledger, suggestion_id, "EXPIRED", current_price, at)

\* INSERT INTO suggestions (... status, entry_price, timeframe_days): the
\* columns resolved_price and resolved_at are not written and stay NULL,
\* whatever the object holds; the row id is the next one.
save_suggestion(ledger, s) ==
    Append(ledger, [s EXCEPT !.resolved_price = None, !.resolved_at = None])

\* a faulty selection: the WHERE status = 'OPEN' left out
open_ids_unfiltered(ledger) == DOMAIN ledger

\* the ids of the rows WHERE status = 'OPEN' selects

open_ids(ledger) == {i \in DOMAIN ledger : ledger[i].status = "OPEN"}

\* SELECT * FROM suggestions WHERE status = 'OPEN' ORDER BY created_at DESC:
\* every order of the OPEN rows that is descending in created_at (SQLite does
\* not say how it orders rows of equal created_at).
get_open_suggestions(ledger) ==
    LET ids == open_ids(ledger)
        n == Cardinality(ids)
    IN  {o \in [1..n -> ids] :
            /\ \A i, j \in 1..n : i # j => o[i] # o[j]
            /\ \A i, j \in 1..n :
                   i < j => ledger[o[i]].created_at >= ledger[o[j]].created_at}

\* SELECT * FROM suggestions ORDER BY created_at DESC: every order of all the
\* rows that is descending in created_at
get_all_suggestions(ledger) ==
    LET n == Len(ledger)
    IN  {o \in [1..n -> 1..n] :
            /\ \A i, j \in 1..n : i # j => o[i] # o[j]
            /\ \A i, j \in 1..n :
                   i < j => ledger[o[i]].created_at >= ledger[o[j]].created_at}

\* SELECT portfolio_value FROM briefings ORDER BY created_at DESC LIMIT 1
get_previous_day_value(b) ==
    IF Len(b) = 0 THEN None
    ELSE LET latest == CHOOSE i \in 1..Len(b) :
                 \A j \in 1..Len(b) :
                     \/ b[j].created_at < b[i].created_at
                     \/ (b[j].created_at = b[i].created_at /\ j <= i)
         IN  Some(b[latest].portfolio_value)


save_briefing(b, briefing) == Append(b, briefing)

save_snapshots(table, snaps, briefing_id) ==
    table \cup {[s EXCEPT !.briefing_id = Some(briefing_id)] : s \in snaps}

\* _row_to_suggestion: the row with its id, every column copied
_row_to_suggestion(ledger, i) == [id |-> i] @@ ledger[i]

\* ------------------------------------------------------------- prices.py
\* a faulty fetch_prices: quotes for tickers that were not asked for
fetch_prices_any(tickers) ==
    UNION {[S -> Prices] : S \in SUBSET Tickers}

\* fetch_prices: a quote for any subset of the tickers asked for (a ticker
\* whose lookup fails or lacks data is skipped), each price rounded to cents.
fetch_prices(tickers) ==
    UNION {[S -> Prices] : S \in SUBSET tickers}

\* -------------------------------------------------------- suggestions.py
hit_rule(s, current) ==
    \/ s.action = "BUY" /\ current >= s.target_price
    \/ s.action = "SELL" /\ current <= s.target_price

deadline(s) == s.created_at + s.timeframe_days

\* a faulty loop body: the deadline checked before the hit rule
resolve_one_expiry_first(ledger, s, prices, run_now, at) ==
    IF s.ticker \notin DOMAIN prices THEN ledger
    ELSE LET current == prices[s.ticker] IN
         IF run_now >= deadline(s)
         THEN expire_suggestion(ledger, s.id, current, at)
         ELSE IF hit_rule(s, current)
         THEN resolve_suggestion(ledger, s.id, "HIT", current, at)
         ELSE ledger

\* a faulty loop body: a suggestion without a quote expires at its entry price
resolve_one_no_quote_expires(ledger, s, prices, run_now, at) ==
    IF s.ticker \notin DOMAIN prices
    THEN IF run_now >= deadline(s)
         THEN expire_suggestion(ledger, s.id, s.entry_price, at)
         ELSE ledger
    ELSE LET current == prices[s.ticker] IN
         IF hit_rule(s, current)
         THEN resolve_suggestion(ledger, s.id, "HIT", current, at)
         ELSE IF run_now >= deadline(s)
         THEN expire_suggestion(ledger, s.id, current, at)
         ELSE ledger

\* a faulty loop body: now > deadline in place of now >= deadline
resolve_one_late_deadline(ledger, s, prices, run_now, at) ==
    IF s.ticker \notin DOMAIN prices THEN ledger
    ELSE LET current == prices[s.ticker] IN
         IF hit_rule(s, current)
         THEN resolve_suggestion(ledger, s.id, "HIT", current, at)
         ELSE IF run_now > deadline(s)
         THEN expire_suggestion(ledger, s.id, current, at)
         ELSE ledger

\* the loop body of resolve_open_suggestions for the loaded object s, with
\* run_now the clock read before the loop and at the clock at the update
resolve_one(ledger, s, prices, run_now, at) ==
    IF s.ticker \notin DOMAIN prices THEN ledger
    ELSE LET current == prices[s.ticker] IN
         IF hit_rule(s, current)
         THEN resolve_suggestion(ledger, s.id, "HIT", current, at)
         ELSE IF run_now >= deadline(s)
         THEN expire_suggestion(ledger, s.id, current, at)
         ELSE ledger

\* ----------------------------------------------------------- analyzer.py
Confidences == {"MEDIUM"}

Candidates ==
    [ticker : Tickers, action : Actions, confidence : Confidences,
     target_price : TargetPrices, timeframe_days : Timeframes]

\* What _call_claude can return, by the path _parse_suggestions takes on it:
\*   no_block  - re.search finds no fenced json array
\*   bad_json  - json.loads raises JSONDecodeError
\*   bad_shape - json.loads returns a list, and the loop raises on an item
\*               (item.get on a non-object, float() of a non-number, ...)
\*   items     - a list of well-formed candidate objects
Responses ==
    {[kind |-> k, items |-> <<>>] : k \in {"no_block", "bad_json", "bad_shape"}}
    \cup {[kind |-> "items", items |-> it] :
            it \in UNION {[1..n -> Candidates] : n \in 0..MaxSuggestions}}

\* a faulty constructor: a candidate whose entry price already meets its hit
\* rule is marked HIT when it is built
new_suggestion_hit_at_entry(item, prices, at) ==
    LET met == item.ticker \in DOMAIN prices
                   /\ hit_rule(item, prices[item.ticker])
    IN  [ticker |-> item.ticker, action |-> item.action,
         confidence |-> item.confidence, target_price |-> item.target_price,
         created_at |-> at, status |-> IF met THEN "HIT" ELSE "OPEN",
         entry_price |-> IF item.ticker \in DOMAIN prices
                         THEN prices[item.ticker] ELSE 0,
         resolved_price |-> None, resolved_at |-> None,
         timeframe_days |-> item.timeframe_days]

\* the Suggestion built for one item (lines 175-190)
new_suggestion(item, prices, at) ==
    [ticker |-> item.ticker, action |-> item.action,
     confidence |-> item.confidence, target_price |-> item.target_price,
     created_at |-> at, status |-> "OPEN",
     entry_price |-> IF item.ticker \in DOMAIN prices
                     THEN prices[item.ticker] ELSE 0,
     resolved_price |-> None, resolved_at |-> None,
     timeframe_days |-> item.timeframe_days]

_parse_suggestions(raw, prices, at) ==
    IF raw.kind \in {"no_block", "bad_json"}
    THEN [raised |-> FALSE, suggestions |-> <<>>]
    ELSE IF raw.kind = "bad_shape"
    THEN [raised |-> TRUE, suggestions |-> <<>>]
    ELSE [raised |-> FALSE,
          suggestions |-> [i \in 1..Len(raw.items) |->
                              new_suggestion(raw.items[i], prices, at)]]

\* ----------------------------------------------------------- notifier.py
\* a faulty send_briefing: the transport's exception not caught
send_briefing_uncaught(configured, transport_ok) ==
    [raised |-> configured /\ ~transport_ok, sent |-> configured /\ transport_ok]

\* send_briefing: False without credentials; the transport's exception is
\* caught and answered with False.
send_briefing(configured, transport_ok) ==
    [raised |-> FALSE, sent |-> configured /\ transport_ok]


\* ----------------------------------------------------------- pipeline.py
RECURSIVE SumOver(_, _)
SumOver(S, f) ==
    IF S = {} THEN 0
    ELSE LET x == CHOOSE y \in S : TRUE IN f[x] + SumOver(S \ {x}, f)

\* n / d rounded to the nearest integer, a tie to the even one (d > 0)
RoundDiv(n, d) ==
    LET q == n \div d
        r == n % d
    IN  IF 2 * r < d THEN q
        ELSE IF 2 * r > d THEN q + 1
        ELSE IF q % 2 = 0 THEN q ELSE q + 1

\* step 3: one snapshot per holding with a quote; shares and prices are whole
\* numbers here, which round(value, 2) leaves as they are
build_snapshots(h, prices) ==
    {[ticker |-> t, shares |-> h[t].shares, price |-> prices[t],
      value |-> h[t].shares * prices[t], briefing_id |-> None] :
        t \in DOMAIN h \cap DOMAIN prices}

\* a faulty running total: the rounded value of each snapshot added up
portfolio_value_of_rounded_lots(h, prices) ==
    SumOver(DOMAIN h \cap DOMAIN prices,
            [t \in DOMAIN h \cap DOMAIN prices |->
                ShareScale * RoundDiv(h[t].shares * prices[t], ShareScale)])

\* portfolio_value += value over the holdings with a quote, nothing rounded
portfolio_value_of(h, prices) ==
    SumOver(DOMAIN h \cap DOMAIN prices,
            [t \in DOMAIN h \cap DOMAIN prices |-> h[t].shares * prices[t]])

\* step 4: in hundredths of a percent; None when there is no earlier value or
\* it is not positive
daily_change(portfolio_value, prev_value) ==
    IF prev_value # None /\ prev_value[1] > 0
    THEN Some(RoundDiv((portfolio_value - prev_value[1]) * 10000, prev_value[1]))
    ELSE None

NoLocals ==
    [holdings |-> <<>>, prices |-> <<>>, snapshots |-> {}, portfolio_value |-> 0,
     daily_change_pct |-> None, open_sug |-> <<>>, now |-> 0, cursor |-> 0,
     raw |-> "none", suggestions |-> <<>>, saved |-> 0, briefing_id |-> None,
     smtp |-> "none", sent |-> FALSE]

NoTables == [suggestions |-> <<>>, briefings |-> <<>>, snapshots |-> {}]

Init ==
    /\ now = 0
    /\ holdings = <<>>
    /\ suggestions = <<>>
    /\ briefings = <<>>
    /\ snapshots = {}
    /\ pc = "idle"
    /\ local = NoLocals
    /\ start = NoTables
    /\ outcome = "none"

\* the clock advances: between runs, and while the loop of
\* resolve_open_suggestions runs (after it has read the clock)
Tick ==
    /\ pc \in {"idle", "resolve"}
    /\ now < MaxTime
    /\ now' = now + 1
    /\ UNCHANGED <<holdings, suggestions, briefings, snapshots, pc, local,
                   start, outcome>>

\* main.py cmd_add / cmd_remove: the portfolio is edited from the command
\* line, between runs
AddHolding ==
    /\ pc = "idle"
    /\ \E t \in Holdable, q \in LotShares, b \in LotBasis :
          /\ (IF t \in DOMAIN holdings THEN holdings[t].shares ELSE 0) + q
                 <= MaxShares
          /\ holdings' = add_holding(holdings, t, q, Frac(b, 1))
    /\ UNCHANGED <<now, suggestions, briefings, snapshots, pc, local, start,
                   outcome>>

RemoveHolding ==
    /\ pc = "idle"
    /\ \E t \in DOMAIN holdings : holdings' = remove_holding(holdings, t)
    /\ UNCHANGED <<now, suggestions, briefings, snapshots, pc, local, start,
                   outcome>>

\* run_daily begins: the tables as they stand are remembered in start
BeginRun ==
    start' = [suggestions |-> suggestions, briefings |-> briefings,
              snapshots |-> snapshots]

\* step 1, no holdings: print and return
RunNoHoldings ==
    /\ pc = "idle"
    /\ DOMAIN get_holdings = {}
    /\ BeginRun
    /\ local' = NoLocals
    /\ outcome' = "no_holdings"
    /\ pc' = "done"
    /\ UNCHANGED <<now, holdings, suggestions, briefings, snapshots>>

\* step 1: the holdings are loaded
LoadHoldings ==
    /\ pc = "idle"
    /\ DOMAIN get_holdings # {}
    /\ BeginRun
    /\ local' = [NoLocals EXCEPT !.holdings = get_holdings]
    /\ outcome' = "running"
    /\ pc' = "fetch_prices"
    /\ UNCHANGED <<now, holdings, suggestions, briefings, snapshots>>

\* a faulty step 2: the empty quote map not checked
abort_without_prices_never(prices) == FALSE

\* step 2: if not prices
abort_without_prices(prices) == DOMAIN prices = {}

\* step 2, no quote at all: print and return
FetchNoPrices ==
    /\ pc = "fetch_prices"
    /\ \E prices \in fetch_prices(DOMAIN local.holdings) :
          /\ abort_without_prices(prices)
          /\ local' = [local EXCEPT !.prices = prices]
    /\ outcome' = "no_prices"
    /\ pc' = "done"
    /\ UNCHANGED <<now, holdings, suggestions, briefings, snapshots, start>>

\* steps 2 to 4: quotes, snapshots, portfolio value, daily change
FetchAndValue ==
    /\ pc = "fetch_prices"
    /\ \E prices \in fetch_prices(DOMAIN local.holdings) :
          /\ ~abort_without_prices(prices)
          /\ LET value == portfolio_value_of(local.holdings, prices) IN
             local' = [local EXCEPT
                 !.prices = prices,
                 !.snapshots = build_snapshots(local.holdings, prices),
                 !.portfolio_value = value,
                 !.daily_change_pct =
                     daily_change(value, get_previous_day_value(briefings))]
    /\ pc' = "load_open"
    /\ UNCHANGED <<now, holdings, suggestions, briefings, snapshots, start,
                   outcome>>

\* step 5, resolve_open_suggestions lines 15-16: the OPEN rows and the clock
LoadOpen ==
    /\ pc = "load_open"
    /\ \E order \in get_open_suggestions(suggestions) :
          local' = [local EXCEPT
              !.open_sug = [i \in 1..Len(order) |->
                               _row_to_suggestion(suggestions, order[i])],
              !.now = now,
              !.cursor = 1]
    /\ pc' = "resolve"
    /\ UNCHANGED <<now, holdings, suggestions, briefings, snapshots, start,
                   outcome>>

\* step 5, one turn of the loop of resolve_open_suggestions
ResolveNext ==
    /\ pc = "resolve"
    /\ local.cursor <= Len(local.open_sug)
    /\ suggestions' = resolve_one(suggestions, local.open_sug[local.cursor],
                                  local.prices, local.now, now)
    /\ local' = [local EXCEPT !.cursor = @ + 1]
    /\ UNCHANGED <<now, holdings, briefings, snapshots, pc, start, outcome>>

\* step 6, analyze_portfolio: the call may raise, and so may the parsing
AnalyzePortfolio ==
    /\ pc = "resolve"
    /\ local.cursor > Len(local.open_sug)
    /\ \E call_ok \in BOOLEAN, raw \in Responses :
          LET parsed == _parse_suggestions(raw, local.prices, now) IN
          IF call_ok /\ ~parsed.raised
          THEN /\ Len(suggestions) + Len(raw.items) <= MaxSuggestions
               /\ Len(briefings) < MaxBriefings
               /\ local' = [local EXCEPT !.raw = raw.kind,
                                         !.suggestions = parsed.suggestions]
               /\ pc' = "save_suggestions"
               /\ UNCHANGED outcome
          ELSE /\ raw.items = <<>>
               /\ local' = [local EXCEPT
                      !.raw = IF call_ok THEN raw.kind ELSE "none"]
               /\ pc' = "done"
               /\ outcome' = "raised"
    /\ UNCHANGED <<now, holdings, suggestions, briefings, snapshots, start>>

\* step 7, one turn of the loop: save_suggestion
SaveSuggestion ==
    /\ pc = "save_suggestions"
    /\ local.saved < Len(local.suggestions)
    /\ suggestions' = save_suggestion(suggestions, local.suggestions[local.saved + 1])
    /\ local' = [local EXCEPT !.saved = @ + 1]
    /\ UNCHANGED <<now, holdings, briefings, snapshots, pc, start, outcome>>

\* step 8: the briefing row
SaveBriefing ==
    /\ pc = "save_suggestions"
    /\ local.saved = Len(local.suggestions)
    /\ briefings' = save_briefing(briefings,
          [date |-> now, portfolio_value |-> local.portfolio_value,
           daily_change_pct |-> local.daily_change_pct,
           suggestion_count |-> Len(local.suggestions), created_at |-> now])
    /\ local' = [local EXCEPT !.briefing_id = Some(Len(briefings) + 1)]
    /\ pc' = "save_snapshots"
    /\ UNCHANGED <<now, holdings, suggestions, snapshots, start, outcome>>

\* step 8: the snapshots, linked to the briefing
SaveSnapshots ==
    /\ pc = "save_snapshots"
    /\ snapshots' = save_snapshots(snapshots, local.snapshots, local.briefing_id[1])
    /\ pc' = "send_briefing"
    /\ UNCHANGED <<now, holdings, suggestions, briefings, local, start, outcome>>

\* steps 9 and 10: the email, then the summary
SendBriefing ==
    /\ pc = "send_briefing"
    /\ \E configured \in BOOLEAN, transport_ok \in BOOLEAN :
          LET r == send_briefing(configured, transport_ok) IN
          /\ local' = [local EXCEPT
                 !.smtp = IF ~configured THEN "unconfigured"
                          ELSE IF transport_ok THEN "ok" ELSE "failed",
                 !.sent = r.sent]
          /\ outcome' = IF r.raised THEN "raised"
                        ELSE IF r.sent THEN "sent" ELSE "unsent"
    /\ pc' = "done"
    /\ UNCHANGED <<now, holdings, suggestions, briefings, snapshots, start>>

\* the process is killed between two steps
Interrupt ==
    /\ pc \notin {"idle", "done"}
    /\ pc' = "done"
    /\ outcome' = "interrupted"
    /\ UNCHANGED <<now, holdings, suggestions, briefings, snapshots, local,
                   start>>

\* the process is gone, and its local variables with it
Return ==
    /\ pc = "done"
    /\ pc' = "idle"
    /\ local' = NoLocals
    /\ start' = NoTables
    /\ outcome' = "none"
    /\ UNCHANGED <<now, holdings, suggestions, briefings, snapshots>>

Next ==
    \/ Tick
    \/ AddHolding
    \/ RemoveHolding
    \/ RunNoHoldings
    \/ LoadHoldings
    \/ FetchNoPrices
    \/ FetchAndValue
    \/ LoadOpen
    \/ ResolveNext
    \/ AnalyzePortfolio
    \/ SaveSuggestion
    \/ SaveBriefing
    \/ SaveSnapshots
    \/ SendBriefing
    \/ Interrupt
    \/ Return

Spec == Init /\ [][Next]_vars


\* ------------------------------------------------- valuation in cents
\* The runs above count shares and prices in whole numbers.  The runs below
\* count a price in cents and a holding's shares in ShareScale-ths of a share
\* (shares REAL "may be fractional"), so that shares * price is a number of
\* ShareScale-ths of a cent and round(value, 2) has something to round.
FractionalShares == {-4, 1, 5}     \* -0.4 (a short position), 0.1, 0.5
QuoteCents == {1, 2}               \* current_price, in cents
MaxValuations == 3                 \* briefings one store of these runs holds

Abs(x) == IF x < 0 THEN -x ELSE x

\* round(n / d) to a whole number (d > 0): the nearest one; when n / d lies
\* half-way between two, the binary value of the float decides
\* (round(0.015, 2) = 0.01, round(0.025, 2) = 0.03), so either neighbour
Round(n, d) ==
    LET q == n \div d
        r == n % d
    IN  IF 2 * r < d THEN {q}
        ELSE IF 2 * r > d THEN {q + 1}
        ELSE {q, q + 1}

\* step 3 with fractional shares: the lists of snapshots the loop can build,
\* one snapshot per holding with a quote, value = round(shares * price, 2)
value_snapshots(h, prices) ==
    LET held == DOMAIN h \cap DOMAIN prices
        cents == UNION {Round(h[t].shares * prices[t], ShareScale) : t \in held}
    IN  {{[ticker |-> t, shares |-> h[t].shares, price |-> prices[t],
           value |-> v[t], briefing_id |-> None] : t \in held} :
            v \in {f \in [held -> cents] :
                      \A t \in held :
                          f[t] \in Round(h[t].shares * prices[t], ShareScale)}}

\* a faulty step 4: no prior value, or a prior value of zero, gives None, but
\* a negative one is divided by
daily_change_pcts_truthy(portfolio_value, prev_value) ==
    IF prev_value # None /\ prev_value[1] # 0
    THEN {Some(q) : q \in Round(
             (IF prev_value[1] < 0 THEN -1 ELSE 1)
                 * (portfolio_value - ShareScale * prev_value[1]) * 10000,
             ShareScale * Abs(prev_value[1]))}
    ELSE {None}

\* step 4 with fractional shares: portfolio_value in ShareScale-ths of a
\* cent, prev_value in cents as stored, the result in hundredths of a percent
daily_change_pcts(portfolio_value, prev_value) ==
    IF prev_value # None /\ prev_value[1] > 0
    THEN {Some(q) : q \in Round(
             (portfolio_value - ShareScale * prev_value[1]) * 10000,
             ShareScale * prev_value[1])}
    ELSE {None}

\* the portfolios these runs value: two holdings of fractional shares (a run
\* values one of them alone when the other gets no quote)
ValuationInit ==
    /\ now = 0
    /\ holdings \in [Tickers -> [shares : FractionalShares,
                                 cost_basis : {Frac(1, 1)}]]
    /\ suggestions = <<>>
    /\ briefings = <<>>
    /\ snapshots = {}
    /\ pc = "idle"
    /\ local = NoLocals
    /\ start = NoTables
    /\ outcome = "none"

\* run_daily from step 1 to step 10 on a store without open suggestions,
\* the analysis proposing none: quotes (in cents), snapshots, portfolio
\* value, daily change, then the briefing row and the snapshots linked to
\* it.  The runs are a day apart: the clock has moved on when one is over.
ValuationRun ==
    /\ pc = "idle"
    /\ Len(briefings) < MaxValuations
    /\ BeginRun
    /\ \E prices \in UNION {[S -> QuoteCents] : S \in SUBSET DOMAIN get_holdings} :
       \E snaps \in value_snapshots(get_holdings, prices) :
          LET value == portfolio_value_of(get_holdings, prices) IN
          \E change \in daily_change_pcts(value, get_previous_day_value(briefings)) :
          \E stored \in Round(value, ShareScale) :
             /\ ~abort_without_prices(prices)
             /\ local' = [NoLocals EXCEPT
                    !.holdings = get_holdings,
                    !.prices = prices,
                    !.snapshots = snaps,
                    !.portfolio_value = value,
                    !.daily_change_pct = change,
                    !.raw = "no_block",
                    !.briefing_id = Some(Len(briefings) + 1)]
             /\ briefings' = save_briefing(briefings,
                    [date |-> now, portfolio_value |-> stored,
                     daily_change_pct |-> change,
                     suggestion_count |-> 0, created_at |-> now])
             /\ snapshots' = save_snapshots(snapshots, snaps, Len(briefings) + 1)
    /\ outcome' = "unsent"
    /\ pc' = "done"
    /\ now' = now + 1
    /\ UNCHANGED <<holdings, suggestions>>

ValuationNext ==
    \/ ValuationRun
    \/ Return

ValuationSpec == ValuationInit /\ [][ValuationNext]_vars


\* ------------------------------------------------ the holdings table
\* The add and remove commands on their own, with tickers as typed and lots
\* bought and sold.  start.before is the table before the last command and
\* start.before2 the table before the last two; local.log is those commands.
RawTickers == {"aaa", "AAA", "BBB"}
Lots == [shares : {-1, 1, 2}, cost_basis : {1, 3}]
MaxPosition == 2          \* shares of one holding, long or short
MaxCommands == 4          \* add and remove commands in one history

HoldingsInit ==
    /\ now = 0
    /\ holdings = <<>>
    /\ suggestions = <<>>
    /\ briefings = <<>>
    /\ snapshots = {}
    /\ pc = "idle"
    /\ local = [log |-> <<>>, count |-> 0]
    /\ start = [before |-> <<>>, before2 |-> <<>>]
    /\ outcome = "none"

Logged(command) ==
    /\ local.count < MaxCommands
    /\ local' = [log |-> IF local.log = <<>> THEN <<command>>
                         ELSE <<local.log[Len(local.log)], command>>,
                 count |-> local.count + 1]
    /\ start' = [before |-> holdings, before2 |-> start.before]

\* main.py cmd_add with a cost basis given: add <ticker> <shares> <cost_basis>
CmdAdd ==
    /\ \E t \in RawTickers, lot \in Lots :
          /\ LET held == IF upper(t) \in DOMAIN holdings
                         THEN holdings[upper(t)].shares ELSE 0
             IN  held + lot.shares \in (-MaxPosition)..MaxPosition
          /\ holdings' = add_holding(holdings, t, lot.shares,
                                     Frac(lot.cost_basis, 1))
          /\ Logged([command |-> "add", ticker |-> t, shares |-> lot.shares,
                     cost_basis |-> lot.cost_basis])
    /\ UNCHANGED <<now, suggestions, briefings, snapshots, pc, outcome>>

\* main.py cmd_remove: remove <ticker>
CmdRemove ==
    /\ \E t \in RawTickers :
          /\ holdings' = remove_holding(holdings, t)
          /\ Logged([command |-> "remove", ticker |-> t, shares |-> 0,
                     cost_basis |-> 0])
    /\ UNCHANGED <<now, suggestions, briefings, snapshots, pc, outcome>>

HoldingsNext ==
    \/ CmdAdd
    \/ CmdRemove

HoldingsSpec == HoldingsInit /\ [][HoldingsNext]_vars


\* ------------------------------------------- suggestions saved and reloaded
\* save_suggestion and get_all_suggestions on their own: Suggestion objects
\* in any of the three statuses, a HIT or EXPIRED one carrying its
\* resolved_price and resolved_at, are saved and read back.
SuggestionObjects ==
    {[ticker |-> "AAA", action |-> a, confidence |-> "MEDIUM",
      target_price |-> 2, created_at |-> c, status |-> r.status,
      entry_price |-> e, resolved_price |-> r.resolved_price,
      resolved_at |-> r.resolved_at, timeframe_days |-> 1] :
        a \in Actions, c \in 0..1, e \in {0, 1},
        r \in {[status |-> "OPEN", resolved_price |-> None,
                resolved_at |-> None]}
              \cup [status : {"HIT", "EXPIRED"},
                    resolved_price : {Some(1), Some(3)},
                    resolved_at : {Some(2)}]}

RoundTripInit ==
    /\ now = 0
    /\ holdings = <<>>
    /\ suggestions = <<>>
    /\ briefings = <<>>
    /\ snapshots = {}
    /\ pc = "idle"
    /\ local = [saved |-> None, reloaded |-> None]
    /\ start = NoTables
    /\ outcome = "none"

\* suggestion_id = save_suggestion(s), then get_all_suggestions() and the
\* object of that id in its answer
SaveAndReload ==
    /\ Len(suggestions) < MaxSuggestions
    /\ \E s \in SuggestionObjects :
          /\ suggestions' = save_suggestion(suggestions, s)
          /\ \E order \in get_all_suggestions(suggestions') :
             \E k \in DOMAIN order :
                /\ order[k] = Len(suggestions')
                /\ local' = [saved |-> Some(s),
                             reloaded |->
                                 Some(_row_to_suggestion(suggestions', order[k]))]
    /\ UNCHANGED <<now, holdings, briefings, snapshots, pc, start, outcome>>

RoundTripNext == SaveAndReload

RoundTripSpec == RoundTripInit /\ [][RoundTripNext]_vars


\* ------------------------------------------------------------ scorecard
\* suggestions.py: compute_pnl and scorecard, on a list of Suggestion
\* objects.  Prices are whole units, which round(pnl, 2) leaves as they are;
\* hit_rate is the exact quotient, avg_pnl is in hundredths of a unit.
compute_pnl(s) ==
    IF s.resolved_price = None THEN None
    ELSE IF s.action = "BUY"
    THEN Some(s.resolved_price[1] - s.entry_price)
    ELSE Some(s.entry_price - s.resolved_price[1])

is_resolved(s) == s.status \in {"HIT", "EXPIRED"}

is_hit(s) == s.status = "HIT"

\* a faulty count: whatever is not resolved is taken to be open
count_open_as_rest(history) == Len(history) - Len(SelectSeq(history, is_resolved))

\* len([s for s in suggestions if s.status == "OPEN"])
count_open(history) ==
    LET is_open(s) == s.status = "OPEN" IN Len(SelectSeq(history, is_open))

\* pnls: (s, pnl) for the resolved suggestions with a P/L, in list order
RECURSIVE pnls_of(_)
pnls_of(resolved) ==
    IF resolved = <<>> THEN <<>>
    ELSE LET s == Head(resolved) IN
         (IF compute_pnl(s) = None THEN <<>>
          ELSE <<[s |-> s, pnl |-> compute_pnl(s)[1]]>>)
         \o pnls_of(Tail(resolved))

\* an entry put into a list sorted by descending pnl, after the entries of
\* equal pnl already there
RECURSIVE insert_desc(_, _)
insert_desc(sorted, e) ==
    IF sorted = <<>> THEN <<e>>
    ELSE IF Head(sorted).pnl >= e.pnl
    THEN <<Head(sorted)>> \o insert_desc(Tail(sorted), e)
    ELSE <<e>> \o sorted

\* an entry put before the entries of equal pnl already there
RECURSIVE insert_desc_first(_, _)
insert_desc_first(sorted, e) ==
    IF sorted = <<>> THEN <<e>>
    ELSE IF Head(sorted).pnl > e.pnl
    THEN <<Head(sorted)>> \o insert_desc_first(Tail(sorted), e)
    ELSE <<e>> \o sorted

\* a faulty sort: ascending, then reversed, which turns round the entries of
\* equal pnl
RECURSIVE sort_desc_reversed(_)
sort_desc_reversed(pnls) ==
    IF pnls = <<>> THEN <<>>
    ELSE insert_desc_first(sort_desc_reversed(SubSeq(pnls, 1, Len(pnls) - 1)),
                           pnls[Len(pnls)])

\* pnls.sort(key=lambda x: x[1], reverse=True): stable, so entries of equal
\* pnl stay in list order
RECURSIVE sort_desc(_)
sort_desc(pnls) ==
    IF pnls = <<>> THEN <<>>
    ELSE insert_desc(sort_desc(SubSeq(pnls, 1, Len(pnls) - 1)),
                     pnls[Len(pnls)])

RECURSIVE sum_pnl(_)
sum_pnl(pnls) == IF pnls = <<>> THEN 0 ELSE Head(pnls).pnl + sum_pnl(Tail(pnls))

_format_call(entry) ==
    [ticker |-> entry.s.ticker, action |-> entry.s.action, pnl |-> entry.pnl,
     status |-> entry.s.status]

\* the sub-record of one confidence tier
confidence_tier(resolved, conf) ==
    LET in_tier(s) == s.confidence = conf
        conf_resolved == SelectSeq(resolved, in_tier)
        conf_hits == SelectSeq(conf_resolved, is_hit)
        conf_pnls == pnls_of(conf_resolved)
    IN  [count |-> Len(conf_resolved),
         hit_rate |-> Frac(Len(conf_hits) * 100, Len(conf_resolved)),
         avg_pnl |-> IF conf_pnls = <<>> THEN Frac(0, 1)
                     ELSE Frac(sum_pnl(conf_pnls), Len(conf_pnls))]

scorecard(history) ==
    LET resolved == SelectSeq(history, is_resolved) IN
    IF resolved = <<>>
    THEN [total |-> Len(history), open |-> count_open(history),
          resolved |-> 0, hit_rate |-> Frac(0, 1), avg_pnl |-> 0,
          best |-> None, worst |-> None, by_confidence |-> <<>>]
    ELSE LET pnls == sort_desc(pnls_of(resolved))
             hits == SelectSeq(resolved, is_hit)
             tiers == {conf \in {"HIGH", "MEDIUM", "LOW"} :
                          \E k \in DOMAIN resolved : resolved[k].confidence = conf}
         IN  [total |-> Len(history), open |-> count_open(history),
              resolved |-> Len(resolved),
              hit_rate |-> Frac(Len(hits) * 100, Len(resolved)),
              avg_pnl |-> IF pnls = <<>> THEN 0
                          ELSE RoundDiv(sum_pnl(pnls) * 100, Len(pnls)),
              best |-> IF pnls = <<>> THEN None ELSE Some(_format_call(pnls[1])),
              worst |-> IF pnls = <<>> THEN None
                        ELSE Some(_format_call(pnls[Len(pnls)])),
              by_confidence |-> [conf \in tiers |->
                                    confidence_tier(resolved, conf)]]

\* the suggestions a history is made of: OPEN ones, resolved ones with and
\* without a resolved_price, and ones of a status the program does not know
MaxHistory == 3
HistoryEntries ==
    {[ticker |-> "AAA", action |-> a, confidence |-> c, target_price |-> 2,
      created_at |-> 0, status |-> r.status, entry_price |-> 2,
      resolved_price |-> r.resolved_price,
      resolved_at |-> IF r.resolved_price = None THEN None ELSE Some(1),
      timeframe_days |-> 1] :
        a \in Actions, c \in {"HIGH", "LOW"},
        r \in [status : {"OPEN", "CANCELLED"}, resolved_price : {None}]
              \cup [status : {"HIT"}, resolved_price : {None, Some(1), Some(3)}]
              \cup [status : {"EXPIRED"}, resolved_price : {Some(1), Some(3)}]}

Histories == UNION {[1..n -> HistoryEntries] : n \in 0..MaxHistory}

ScorecardInit ==
    /\ now = 0
    /\ holdings = <<>>
    /\ suggestions = <<>>
    /\ briefings = <<>>
    /\ snapshots = {}
    /\ pc = "idle"
    /\ local \in [history : Histories, card : {None}]
    /\ start = NoTables
    /\ outcome = "none"

\* sc = scorecard(all_sug)
ApplyScorecard ==
    /\ pc = "idle"
    /\ local' = [local EXCEPT !.card = Some(scorecard(local.history))]
    /\ pc' = "done"
    /\ UNCHANGED <<now, holdings, suggestions, briefings, snapshots, start,
                   outcome>>

ScorecardNext == ApplyScorecard

ScorecardSpec == ScorecardInit /\ [][ScorecardNext]_vars


\* ================================================================ claims
\* The suggestion objects the loop of resolve_open_suggestions has been
\* through in the current run (local.cursor is 0 before they are loaded).
Evaluated == {local.open_sug[k] : k \in 1..(local.cursor - 1)}

Quoted(s) == s.ticker \in DOMAIN local.prices

\* the hit rule, in the words of the specification
TargetReached(s) ==
    \/ s.action = "BUY" /\ local.prices[s.ticker] >= s.target_price
    \/ s.action = "SELL" /\ local.prices[s.ticker] <= s.target_price

PastDeadline(s) == local.now >= s.created_at + s.timeframe_days

Terminal(row) == row.status \in {"HIT", "EXPIRED"}

\* the stored row is still what was loaded at the start of the loop
Untouched(s) ==
    /\ _row_to_suggestion(suggestions, s.id) = s
    /\ suggestions[s.id].status = "OPEN"
    /\ suggestions[s.id].resolved_price = None
    /\ suggestions[s.id].resolved_at = None

\* C1: an evaluated suggestion with a quote that meets the hit rule is HIT
\* with resolved_price the quote, past its deadline or not (never EXPIRED).
C1_HitAtQuotePrice ==
    \A s \in Evaluated :
        (Quoted(s) /\ TargetReached(s)) =>
            /\ suggestions[s.id].status = "HIT"
            /\ suggestions[s.id].resolved_price = Some(local.prices[s.ticker])

C1_Witness ==
    \E s \in Evaluated :
        /\ Quoted(s) /\ TargetReached(s) /\ PastDeadline(s)
        /\ suggestions[s.id].status = "HIT"
        /\ suggestions[s.id].resolved_price # Some(s.target_price)

\* C2: in every state, also in the middle of a run and after an interrupted
\* one, a row has resolved_price and resolved_at both set when its status is
\* HIT or EXPIRED, and both unset when it is OPEN.
C2_ResolvedIffTerminal ==
    \A i \in DOMAIN suggestions :
        \/ /\ Terminal(suggestions[i])
           /\ suggestions[i].resolved_price # None
           /\ suggestions[i].resolved_at # None
        \/ /\ suggestions[i].status = "OPEN"
           /\ suggestions[i].resolved_price = None
           /\ suggestions[i].resolved_at = None

C2_Witness ==
    /\ pc = "done" /\ outcome = "interrupted"
    /\ \E i \in DOMAIN suggestions : Terminal(suggestions[i])
    /\ \E i \in DOMAIN suggestions : suggestions[i].status = "OPEN"
    /\ Len(suggestions) > Len(start.suggestions)

\* C3: a HIT or EXPIRED row never changes again, and the row the loop is
\* about to evaluate (and may update) is OPEN in the store at that moment.
C3_TerminalIsFinal ==
    /\ [](\A k \in DOMAIN local.open_sug :
             (pc = "resolve" /\ k >= local.cursor) =>
                 suggestions[local.open_sug[k].id].status = "OPEN")
    /\ [][\A i \in DOMAIN suggestions :
             Terminal(suggestions[i]) =>
                 /\ i \in DOMAIN suggestions'
                 /\ suggestions'[i] = suggestions[i]]_vars

C3_Witness ==
    /\ pc = "resolve" /\ local.cursor > Len(local.open_sug)
    /\ \E i \in DOMAIN start.suggestions :
          /\ Terminal(start.suggestions[i])
          /\ suggestions[i] = start.suggestions[i]
    /\ \E s \in Evaluated : Terminal(suggestions[s.id])

\* C4: an evaluated suggestion with a quote that does not meet the hit rule
\* is EXPIRED at the quote price exactly when the clock read by the loop is
\* at or past created_at + timeframe_days; before that it is left as it was.
C4_ExpiryRule ==
    \A s \in Evaluated :
        (Quoted(s) /\ ~TargetReached(s)) =>
            IF PastDeadline(s)
            THEN /\ suggestions[s.id].status = "EXPIRED"
                 /\ suggestions[s.id].resolved_price = Some(local.prices[s.ticker])
            ELSE Untouched(s)

C4_Witness ==
    /\ \E s \in Evaluated :
          /\ Quoted(s) /\ ~TargetReached(s) /\ PastDeadline(s)
          /\ suggestions[s.id].status = "EXPIRED"
    /\ \E s \in Evaluated :
          /\ Quoted(s) /\ ~TargetReached(s) /\ ~PastDeadline(s)
          /\ suggestions[s.id].status = "OPEN"

\* C5: an evaluated suggestion without a quote is left exactly as it was,
\* past its deadline or not; and every row that is OPEN when a run starts is
\* among the suggestions that run loads, so it is evaluated again.
C5_NoQuoteUntouched ==
    /\ \A s \in Evaluated : ~Quoted(s) => Untouched(s)
    /\ local.cursor >= 1 =>
          {local.open_sug[k].id : k \in DOMAIN local.open_sug}
              = {i \in DOMAIN start.suggestions :
                    start.suggestions[i].status = "OPEN"}

C5_Witness ==
    \E s \in Evaluated :
        /\ ~Quoted(s) /\ PastDeadline(s)
        /\ suggestions[s.id].status = "OPEN"
        /\ local.cursor > Len(local.open_sug)


\* the three tables are what they were when the current run began
NothingWritten ==
    /\ suggestions = start.suggestions
    /\ briefings = start.briefings
    /\ snapshots = start.snapshots

\* C6: a run that finds no holdings, or gets an empty quote map, is over at
\* once and has written nothing: ledger, briefings and snapshots are as
\* they were before it.
C6_AbortWritesNothing ==
    /\ (pc # "idle" /\ DOMAIN local.holdings = {}) =>
          pc = "done" /\ outcome = "no_holdings" /\ NothingWritten
    /\ (pc \notin {"idle", "fetch_prices"} /\ DOMAIN local.holdings # {}
            /\ DOMAIN local.prices = {}) =>
          pc = "done" /\ outcome \in {"no_prices", "interrupted"} /\ NothingWritten

C6_Witness ==
    /\ pc = "done" /\ outcome = "no_prices"
    /\ \E i \in DOMAIN suggestions :
          /\ suggestions[i].status = "OPEN"
          /\ now >= suggestions[i].created_at + suggestions[i].timeframe_days

\* what a run that reached its end has in the store: its new suggestions,
\* its briefing and the snapshots linked to it
NewRows ==
    [k \in 1..(Len(suggestions) - Len(start.suggestions)) |->
        suggestions[Len(start.suggestions) + k]]

RunPersisted ==
    /\ NewRows = local.suggestions
    /\ Len(briefings) = Len(start.briefings) + 1
    /\ local.briefing_id = Some(Len(briefings))
    /\ briefings[Len(briefings)].suggestion_count = Len(local.suggestions)
    /\ briefings[Len(briefings)].portfolio_value = local.portfolio_value
    /\ {r \in snapshots : r.briefing_id = local.briefing_id}
           = {[r EXCEPT !.briefing_id = local.briefing_id] : r \in local.snapshots}
    /\ local.snapshots # {}

\* C7: a run that ends on a fatal condition (no holdings, no quotes, an
\* exception) without its briefing has resolved and created no suggestion;
\* a run that wrote its briefing and returned also wrote its snapshots and
\* its suggestions.
C7_FatalBeforeAnyWrite ==
    /\ (pc = "done" /\ outcome \in {"no_holdings", "no_prices", "raised"}
            /\ briefings = start.briefings) =>
          suggestions = start.suggestions
    /\ (pc = "done" /\ outcome # "interrupted"
            /\ briefings # start.briefings) => RunPersisted

\* C8: a response without a fenced block, or with a malformed one, gives no
\* new suggestion and does not end the run (its briefing is written with
\* suggestion_count 0); a candidate gets entry_price 0 without a quote and
\* the quote's price with one, and is OPEN.
C8_MalformedGivesNoSuggestions ==
    /\ local.raw \in {"no_block", "bad_json", "bad_shape"} =>
          /\ outcome # "raised"
          /\ local.suggestions = <<>>
          /\ (pc = "done" /\ outcome # "interrupted") =>
                /\ RunPersisted
                /\ briefings[Len(briefings)].suggestion_count = 0
    /\ \A k \in DOMAIN local.suggestions :
          LET s == local.suggestions[k] IN
          /\ s.status = "OPEN"
          /\ s.entry_price = IF s.ticker \in DOMAIN local.prices
                             THEN local.prices[s.ticker] ELSE 0

\* the part of C8 the code keeps: no block, or a block json.loads rejects
C8_UnparseableGivesNoSuggestions ==
    /\ local.raw \in {"no_block", "bad_json"} =>
          /\ outcome # "raised"
          /\ local.suggestions = <<>>
          /\ (pc = "done" /\ outcome # "interrupted") =>
                /\ RunPersisted
                /\ briefings[Len(briefings)].suggestion_count = 0
    /\ \A k \in DOMAIN local.suggestions :
          LET s == local.suggestions[k] IN
          /\ s.status = "OPEN"
          /\ s.entry_price = IF s.ticker \in DOMAIN local.prices
                             THEN local.prices[s.ticker] ELSE 0

\* resolve_open_suggestions as a function: the loaded objects, in the order
\* given, each put through the loop body
RECURSIVE resolve_all(_, _, _, _, _)
resolve_all(ledger, order, prices, run_now, at) ==
    IF order = <<>> THEN ledger
    ELSE resolve_all(resolve_one(ledger, Head(order), prices, run_now, at),
                     Tail(order), prices, run_now, at)

Reorderings(seq) ==
    {[k \in 1..Len(seq) |-> seq[p[k]]] :
        p \in {q \in [1..Len(seq) -> 1..Len(seq)] :
                  \A i, j \in 1..Len(seq) : i # j => q[i] # q[j]}}

StatusAndPrice(row) == <<row.status, row.resolved_price>>

\* C9: when the loop is over, every row the run started with has the status
\* and resolved_price that resolving the loaded suggestions in any other
\* order gives, and each loaded suggestion those that resolving it alone gives.
C9_OrderIndependent ==
    (pc # "idle" /\ local.cursor > Len(local.open_sug)) =>
        /\ \A order \in Reorderings(local.open_sug) :
              \A i \in DOMAIN start.suggestions :
                  StatusAndPrice(suggestions[i]) =
                      StatusAndPrice(resolve_all(start.suggestions, order,
                                         local.prices, local.now, now)[i])
        /\ \A s \in Evaluated :
              StatusAndPrice(suggestions[s.id]) =
                  StatusAndPrice(resolve_all(start.suggestions, <<s>>,
                                     local.prices, local.now, now)[s.id])

C9_Witness ==
    /\ pc # "idle" /\ local.cursor > Len(local.open_sug)
    /\ \E s, t \in Evaluated :
          /\ suggestions[s.id].status = "HIT"
          /\ suggestions[t.id].status = "EXPIRED"

\* C10: the run's suggestions, briefing and snapshots are in the store when
\* delivery is attempted and stay there whatever its outcome; without SMTP
\* credentials, or when the transport raises, send_briefing answers False
\* and the run goes on to its end.
C10_DeliveryFailureNotFatal ==
    /\ pc = "send_briefing" => RunPersisted
    /\ local.smtp # "none" => RunPersisted
    /\ local.smtp \in {"unconfigured", "failed"} =>
          outcome = "unsent" /\ ~local.sent
    /\ local.smtp = "ok" => outcome = "sent" /\ local.sent

C10_Witness ==
    /\ pc = "done" /\ local.smtp = "failed" /\ outcome = "unsent"
    /\ Len(local.suggestions) >= 1
    /\ RunPersisted

\* ---------------------------------------------------- valuation claims
\* v is x / d rounded to a nearest whole number (d > 0)
Nearest(v, x, d) == 2 * Abs(v * d - x) <= d

\* the run at hand has valued the portfolio and stored its briefing
Valued == pc = "done" /\ local.briefing_id # None

ThisBriefing == briefings[local.briefing_id[1]]

ThisSnapshots == {r \in snapshots : r.briefing_id = local.briefing_id}

\* shares * price of the holding of ticker t, not rounded
Unrounded == [t \in DOMAIN holdings \cap DOMAIN local.prices |->
                 holdings[t].shares * local.prices[t]]

\* C11: a run stores exactly one snapshot for each holding with a quote and
\* none for a holding without one; a snapshot's price is the quote's price
\* and its value shares * price rounded to cents; the briefing's portfolio
\* value is the sum of the unrounded shares * price, rounded to cents once.
C11_SnapshotsAndPortfolioValue ==
    Valued =>
        /\ \A t \in DOMAIN holdings :
              Cardinality({r \in ThisSnapshots : r.ticker = t})
                  = IF t \in DOMAIN local.prices THEN 1 ELSE 0
        /\ \A r \in ThisSnapshots :
              /\ r.ticker \in DOMAIN Unrounded
              /\ r.shares = holdings[r.ticker].shares
              /\ r.price = local.prices[r.ticker]
              /\ Nearest(r.value, Unrounded[r.ticker], ShareScale)
        /\ Nearest(ThisBriefing.portfolio_value,
                   SumOver(DOMAIN Unrounded, Unrounded), ShareScale)

\* two holdings valued, and the stored total is not the sum of the two
\* rounded values
C11_Witness ==
    /\ Valued
    /\ Cardinality(ThisSnapshots) = 2
    /\ ThisBriefing.portfolio_value
           # SumOver(ThisSnapshots, [r \in ThisSnapshots |-> r.value])

\* C12: the daily change of a run is None exactly when no briefing was stored
\* before it or the latest one stored has a portfolio value <= 0; otherwise
\* it is (current - prior) / prior * 100 rounded to two decimals, prior being
\* the portfolio value of the latest briefing stored before the run.
C12_DailyChange ==
    Valued =>
        LET n == Len(start.briefings) IN
        /\ ThisBriefing.daily_change_pct = local.daily_change_pct
        /\ IF n = 0 \/ start.briefings[n].portfolio_value <= 0
           THEN local.daily_change_pct = None
           ELSE /\ local.daily_change_pct # None
                /\ Nearest(local.daily_change_pct[1],
                           (local.portfolio_value
                                - ShareScale * start.briefings[n].portfolio_value)
                               * 10000,
                           ShareScale * start.briefings[n].portfolio_value)

\* a third run, after two briefings of different positive value
C12_Witness ==
    /\ Valued
    /\ Len(start.briefings) = 2
    /\ start.briefings[1].portfolio_value > start.briefings[2].portfolio_value
    /\ start.briefings[2].portfolio_value > 0
    /\ local.daily_change_pct # None
    /\ local.daily_change_pct # Some(0)

\* ------------------------------------------------------ holdings claims
\* the last two commands added two lots of the same ticker
TwoLots ==
    /\ Len(local.log) = 2
    /\ local.log[1].command = "add" /\ local.log[2].command = "add"
    /\ upper(local.log[1].ticker) = upper(local.log[2].ticker)

\* the table start.before2 with the two lots added the other way round
OtherWayRound ==
    add_holding(
        add_holding(start.before2, local.log[2].ticker, local.log[2].shares,
                    Frac(local.log[2].cost_basis, 1)),
        local.log[1].ticker, local.log[1].shares,
        Frac(local.log[1].cost_basis, 1))

OnePerTicker ==
    \A k \in DOMAIN holdings :
        /\ k = upper(k)
        /\ \A j \in DOMAIN holdings : upper(j) = upper(k) => j = k

WeightedAverage ==
    LET l1 == local.log[1]
        l2 == local.log[2]
        row == holdings[upper(l1.ticker)]
    IN  /\ upper(l1.ticker) \in DOMAIN holdings
        /\ row.shares = l1.shares + l2.shares
        /\ row.cost_basis.n * (l1.shares + l2.shares)
               = (l1.cost_basis * l1.shares + l2.cost_basis * l2.shares)
                     * row.cost_basis.d

\* C13: there is at most one holding per upper-cased ticker; two lots
\* (q1, b1), (q2, b2) added for a ticker not held before give shares q1 + q2
\* and cost basis (b1*q1 + b2*q2) / (q1 + q2); and two lots added for the
\* same ticker leave the table that adding them the other way round leaves.
C13_LotsCommute ==
    /\ OnePerTicker
    /\ TwoLots =>
          /\ upper(local.log[1].ticker) \notin DOMAIN start.before2
                 => WeightedAverage
          /\ holdings = OtherWayRound

\* what the code keeps of C13: the same, for lots none of whose sums with
\* the shares held (or with each other) is zero
C13_LotsCommuteUnlessZeroSum ==
    /\ OnePerTicker
    /\ TwoLots =>
          LET l1 == local.log[1]
              l2 == local.log[2]
              held == IF upper(l1.ticker) \in DOMAIN start.before2
                      THEN start.before2[upper(l1.ticker)].shares ELSE 0
              fresh == upper(l1.ticker) \notin DOMAIN start.before2
          IN  (/\ l1.shares + l2.shares + held # 0
               /\ fresh \/ (held + l1.shares # 0 /\ held + l2.shares # 0)) =>
                  /\ fresh => WeightedAverage
                  /\ holdings = OtherWayRound

\* ---------------------------------------------------- round-trip claims
\* every field of the object saved has its value in the object read back
\* (the id, which the object gets from the store, aside)
SameFields(saved, reloaded) ==
    /\ DOMAIN saved \subseteq DOMAIN reloaded
    /\ \A f \in DOMAIN saved : reloaded[f] = saved[f]

\* C14: a Suggestion saved with save_suggestion and read back through
\* get_all_suggestions has all its fields and its status as they were, in
\* any of the three statuses, resolved_price and resolved_at included.
C14_RoundTrip ==
    local.saved # None => SameFields(local.saved[1], local.reloaded[1])

\* what the code keeps of C14: the status and every field but resolved_price
\* and resolved_at come back; those two come back unset
C14_RoundTripButResolved ==
    local.saved # None =>
        LET saved == local.saved[1]
            reloaded == local.reloaded[1]
        IN  /\ \A f \in DOMAIN saved \ {"resolved_price", "resolved_at"} :
                   reloaded[f] = saved[f]
            /\ reloaded.resolved_price = None
            /\ reloaded.resolved_at = None
            /\ reloaded.id = Len(suggestions)

\* ----------------------------------------------------- scorecard claims
Scored == pc = "done" /\ local.card # None

Card == local.card[1]

WithStatus(statuses) ==
    {i \in DOMAIN local.history : local.history[i].status \in statuses}

\* C15: total is the number of suggestions, open the number with status
\* OPEN, resolved the number with status HIT or EXPIRED, hit_rate is
\* count(HIT) / resolved * 100 and 0 when resolved is 0; total = open +
\* resolved exactly when every status is OPEN, HIT or EXPIRED; for the empty
\* history every field is zero, None or empty.
C15_ScorecardCounts ==
    Scored =>
        LET resolved == Cardinality(WithStatus({"HIT", "EXPIRED"}))
            hits == Cardinality(WithStatus({"HIT"}))
        IN  /\ Card.total = Len(local.history)
            /\ Card.open = Cardinality(WithStatus({"OPEN"}))
            /\ Card.resolved = resolved
            /\ Card.hit_rate.n * resolved = hits * 100 * Card.hit_rate.d
            /\ resolved = 0 => Card.hit_rate.n = 0
            /\ (Card.total = Card.open + Card.resolved)
                   <=> (WithStatus({"OPEN", "HIT", "EXPIRED"}) = DOMAIN local.history)
            /\ local.history = <<>> =>
                   Card = [total |-> 0, open |-> 0, resolved |-> 0,
                           hit_rate |-> [n |-> 0, d |-> 1], avg_pnl |-> 0,
                           best |-> None, worst |-> None, by_confidence |-> <<>>]

\* a history with an OPEN, a HIT and an unknown status
C15_Witness ==
    /\ Scored
    /\ Len(local.history) = 3
    /\ Card.open = 1 /\ Card.resolved = 1 /\ Card.hit_rate = [n |-> 100, d |-> 1]

\* the places in the history of the resolved suggestions with a P/L
WithPnl ==
    {i \in WithStatus({"HIT", "EXPIRED"}) : local.history[i].resolved_price # None}

\* the P/L in the words of the specification
Pnl(i) ==
    LET s == local.history[i] IN
    IF s.action = "BUY" THEN s.resolved_price[1] - s.entry_price
    ELSE s.entry_price - s.resolved_price[1]

Call(i) ==
    [ticker |-> local.history[i].ticker, action |-> local.history[i].action,
     pnl |-> Pnl(i), status |-> local.history[i].status]

\* C16: best is the resolved suggestion of greatest P/L, the earliest in the
\* list among those; worst the one of least P/L, the latest in the list
\* among those; both are None when no resolved suggestion has a P/L.
C16_BestAndWorst ==
    Scored =>
        IF WithPnl = {}
        THEN Card.best = None /\ Card.worst = None
        ELSE LET b == CHOOSE i \in WithPnl :
                          \A j \in WithPnl :
                              Pnl(j) < Pnl(i) \/ (Pnl(j) = Pnl(i) /\ j >= i)
                 w == CHOOSE i \in WithPnl :
                          \A j \in WithPnl :
                              Pnl(j) > Pnl(i) \/ (Pnl(j) = Pnl(i) /\ j <= i)
             IN  /\ Card.best = Some(Call(b))
                 /\ Card.worst = Some(Call(w))

\* two calls tie for the greatest P/L and two for the least, and the ones
\* reported differ from the other of their tie
C16_Witness ==
    /\ Scored
    /\ \E i, j \in WithPnl :
          /\ i < j /\ Pnl(i) = Pnl(j) /\ Call(i) # Call(j)
          /\ \A k \in WithPnl : Pnl(k) <= Pnl(i)
          /\ Card.best = Some(Call(i))
    /\ \E k \in WithPnl : Card.worst = Some(Call(k)) /\ Card.worst # Card.best

\* ------------------------------------------------ claims on whole runs
\* C17: the quote map of a run holds only tickers of the holdings the run
\* loaded; an OPEN suggestion whose ticker is not among them is left as it
\* is by every step, past its deadline or not; and a suggestion leaves OPEN
\* only in the loop of a run that holds its ticker and has its quote.
C17_OnlyHeldTickersResolve ==
    /\ [](DOMAIN local.prices \subseteq DOMAIN local.holdings)
    /\ [][\A i \in DOMAIN suggestions :
             suggestions[i].status = "OPEN" =>
                 /\ i \in DOMAIN suggestions'
                 /\ suggestions[i].ticker \notin DOMAIN local.holdings
                        => suggestions'[i] = suggestions[i]
                 /\ suggestions'[i].status # "OPEN" =>
                        /\ pc = "resolve"
                        /\ suggestions[i].ticker \in DOMAIN local.holdings
                        /\ suggestions[i].ticker \in DOMAIN local.prices]_vars

\* the loop is over: a suggestion for a ticker not held is OPEN past its
\* deadline, one for a ticker held was resolved
C17_Witness ==
    /\ pc = "resolve" /\ local.cursor > Len(local.open_sug)
    /\ \E s, t \in Evaluated :
          /\ s.ticker \notin DOMAIN local.holdings
          /\ PastDeadline(s)
          /\ suggestions[s.id].status = "OPEN"
          /\ t.ticker \in DOMAIN local.holdings
          /\ Terminal(suggestions[t.id])

\* C18: the suggestions a run creates are stored OPEN with resolved_price and
\* resolved_at unset and are OPEN as long as the run lasts, whatever their
\* entry price; the run's loop over the open suggestions does not have them;
\* and the briefing's suggestion_count is the number of suggestions the run
\* saved.
C18_NewSuggestionsStayOpen ==
    pc # "idle" =>
        /\ \A k \in DOMAIN NewRows :
              /\ NewRows[k].status = "OPEN"
              /\ NewRows[k].resolved_price = None
              /\ NewRows[k].resolved_at = None
        /\ \A k \in DOMAIN local.open_sug :
              local.open_sug[k].id <= Len(start.suggestions)
        /\ briefings # start.briefings =>
              briefings[Len(briefings)].suggestion_count = Len(NewRows)

\* a run that is over saved a BUY whose entry price is at or above its
\* target, and the row is OPEN
C18_Witness ==
    /\ pc = "done" /\ outcome \in {"sent", "unsent"}
    /\ briefings[Len(briefings)].suggestion_count = 2
    /\ \E k \in DOMAIN NewRows :
          /\ NewRows[k].action = "BUY"
          /\ NewRows[k].entry_price >= NewRows[k].target_price
          /\ NewRows[k].ticker \in DOMAIN local.prices
          /\ NewRows[k].status = "OPEN"

====
